---- MODULE Spec2Model ----
(***************************************************************************)
(* Model of the orchestration core of magic_engine: the object registry,   *)
(* the zones, the mana pool, the turn manager, the priority managers and   *)
(* the main loop of ConcreteGame.                                          *)
(*                                                                         *)
(* Conventions.  Python's None is the empty tuple <<>> and an object that  *)
(* is present is the one-element tuple <<x>> (for Optional[Player]), or    *)
(* the string "None" (for Optional[Zone], zones being named by their id    *)
(* strings).  Lists are sequences; a Python index i is the TLA+ index      *)
(* i + 1.  Names that the source uses but leaves unresolved               *)
(* (ConcreteStack, constants.STARTING_HAND_SIZE, ManaType.GENERIC,         *)
(* ConcretePermanent.enters_battlefield, ManaCost in concrete_player.py)   *)
(* resolve to what their use sites require.  Every handler is one operator *)
(* from the game state (a record) to the game state, so that a handler's   *)
(* calls compose as in the code.  game.sba_checker is taken by its         *)
(* interface: a call of check_and_perform may report an action.            *)
(*                                                                         *)
(* Three specifications: Spec is the game (start_game and run_main_loop);  *)
(* StackSpec is the stack zone and LedgerSpec the mana pool, each under    *)
(* any sequence of calls of its methods.                                   *)
(***************************************************************************)
EXTENDS Integers, Sequences, FiniteSets, TLC

VARIABLES
    game,       \* the ConcreteGame instance with everything it owns
    pc,         \* "setup": start_game not yet run; "loop": run_main_loop; "done"
    stack_zone, \* a Stack of its own, with the last call made on it
    ledger,     \* a ConcreteManaPool of its own, with the last call made on it
    registry    \* a registry and its two counters, with the last call made on them

vars == <<game, pc, stack_zone, ledger, registry>>

(***************************************************************************)
(* Bounds of the model.                                                    *)
(***************************************************************************)
DeckSize == 2           \* cards in each player's deck list
StartingHandSize == 1   \* cards drawn by start_game
MaxTurn == 2            \* the turn manager starts no turn after this one
MaxSbaActions == 2      \* actions the state-based-action checker performs in a row
MaxStackIds == 4        \* object ids pushed on the stack taken alone
MaxMana == 2            \* mana in the pool taken alone, and in a cost paid from it
MaxObjects == 3         \* calls made on each counter of the registry taken alone
MaxOverkill == 1        \* how far below 0 a life total is taken

(***************************************************************************)
(* Sequence helpers (Python list operations).                              *)
(***************************************************************************)
Contains(s, x) == \E i \in 1..Len(s) : s[i] = x

IndexOf(s, x) == CHOOSE i \in 1..Len(s) : s[i] = x /\ \A j \in 1..(i - 1) : s[j] # x

\* list.remove(x): drops the first occurrence
ListRemove(s, x) ==
    LET i == IndexOf(s, x)
    IN  SubSeq(s, 1, i - 1) \o SubSeq(s, i + 1, Len(s))

\* list.insert(pos, x) with a Python position pos in 0..len
ListInsert(s, pos, x) == SubSeq(s, 1, pos) \o <<x>> \o SubSeq(s, pos + 1, Len(s))

Max(a, b) == IF a >= b THEN a ELSE b
Min(a, b) == IF a <= b THEN a ELSE b

Range(s) == {s[i] : i \in 1..Len(s)}

Perms(S) == {f \in [1..Cardinality(S) -> S] : \A x \in S : \E i \in DOMAIN f : f[i] = x}

None == <<>>
Some(x) == <<x>>

(***************************************************************************)
(* Enums.                                                                  *)
(***************************************************************************)
ManaType == {"WHITE", "BLUE", "BLACK", "RED", "GREEN", "COLORLESS"}

PHASE_ORDER == <<"BEGINNING", "PRECOMBAT_MAIN", "COMBAT", "POSTCOMBAT_MAIN", "ENDING">>

STEP_ORDER == [
    BEGINNING |-> <<"UNTAP", "UPKEEP", "DRAW">>,
    PRECOMBAT_MAIN |-> <<"MAIN">>,
    COMBAT |-> <<"BEGIN_COMBAT", "DECLARE_ATTACKERS", "DECLARE_BLOCKERS",
                 "COMBAT_DAMAGE", "END_OF_COMBAT">>,
    POSTCOMBAT_MAIN |-> <<"MAIN">>,
    ENDING |-> <<"END", "CLEANUP">>]

\* Python list indexing seq[i], where a negative i counts from the end
PyIndex(s, i) == IF i >= 0 THEN s[i + 1] ELSE s[Len(s) + i + 1]

(***************************************************************************)
(* Card definitions.  A mana cost is the dict SimpleManaCost builds: only  *)
(* the positive components are stored, the generic one under the enum key  *)
(* ManaType.GENERIC (written "GENERIC" here; the string key "generic" is a *)
(* different key).  mana_cost is None for the lands.                       *)
(***************************************************************************)
SimpleManaCost(generic, white, green) ==
    LET all == [GENERIC |-> generic, WHITE |-> white, GREEN |-> green]
        keys == {k \in DOMAIN all : all[k] > 0}
    IN  [k \in keys |-> all[k]]

PlainsData == [name |-> "Plains", card_types |-> {"LAND"}, mana_cost |-> None]
ForestData == [name |-> "Forest", card_types |-> {"LAND"}, mana_cost |-> None]
SavannahLionsData ==
    [name |-> "Savannah Lions", card_types |-> {"CREATURE"},
     mana_cost |-> Some(SimpleManaCost(0, 1, 0))]
GrizzlyBearsData ==
    [name |-> "Grizzly Bears", card_types |-> {"CREATURE"},
     mana_cost |-> Some(SimpleManaCost(1, 0, 1))]

\* The deck lists handed to start_game: the first DeckSize cards of Deck(p),
\* which repeats when it runs out.
Deck(p) ==
    IF p = 0 THEN <<SavannahLionsData, PlainsData, GrizzlyBearsData, ForestData>>
    ELSE <<PlainsData, SavannahLionsData, ForestData, GrizzlyBearsData>>

DeckList(p) == [k \in 1..DeckSize |-> Deck(p)[((k - 1) % Len(Deck(p))) + 1]]

(***************************************************************************)
(* Zones.                                                                  *)
(***************************************************************************)
PlayerTag(p) == IF p = 0 THEN "0" ELSE "1"
LibraryId(p) == "library_" \o PlayerTag(p)
HandId(p) == "hand_" \o PlayerTag(p)
GraveyardId(p) == "graveyard_" \o PlayerTag(p)
BATTLEFIELD == "battlefield"
STACK == "stack"

ZoneIds(ps) ==
    {BATTLEFIELD, STACK} \cup UNION {{LibraryId(p), HandId(p), GraveyardId(p)} : p \in Range(ps)}

\* add() that takes the top of a zone to be index 0, as Library does
Zone_add_at_front(objs, obj_id, position) ==
    ListInsert(objs, IF position = None THEN 0 ELSE Max(0, Min(position[1], Len(objs))), obj_id)

\* ConcreteZone.add(obj_id, position)
Zone_add(objs, obj_id, position) ==
    IF position = None
    THEN Append(objs, obj_id)
    ELSE ListInsert(objs, Max(0, Min(position[1], Len(objs))), obj_id)

\* ConcreteZone.remove(obj_id): a warning, and no change, when the id is absent
Zone_remove(objs, obj_id) ==
    IF Contains(objs, obj_id) THEN ListRemove(objs, obj_id) ELSE objs

\* Library.add(obj_id, position, to_bottom)
Library_add(objs, obj_id, position, to_bottom) ==
    IF to_bottom THEN Zone_add(objs, obj_id, Some(Len(objs)))
    ELSE IF position = None THEN Zone_add(objs, obj_id, Some(0))
    ELSE Zone_add(objs, obj_id, position)

\* ConcreteStack: the top of the stack is the end of the list
Stack_peek(objs) == IF objs = <<>> THEN None ELSE Some(objs[Len(objs)])
Stack_pop(objs) == IF objs = <<>> THEN objs ELSE SubSeq(objs, 1, Len(objs) - 1)
\* what pop() returns
Stack_pop_value(objs) == IF objs = <<>> THEN None ELSE Some(objs[Len(objs)])
\* push(obj_id) is add(obj_id) with the default position
Stack_push(objs, obj_id) == Zone_add(objs, obj_id, None)

(***************************************************************************)
(* Mana pool (ConcreteManaPool).  The pool is a defaultdict(int): a key    *)
(* that is absent reads as 0, so the pool is a total function here.        *)
(***************************************************************************)
PoolKeys == ManaType \cup {"GENERIC"}
EmptyPool == [k \in PoolKeys |-> 0]

DictGet(d, k, default) == IF k \in DOMAIN d THEN d[k] ELSE default

\* add() that stores the amount where it should add to the balance
ManaPool_add_overwrites(pool, mana_type, amount) ==
    IF amount <= 0 THEN pool ELSE [pool EXCEPT ![mana_type] = amount]

\* add() without the check of the amount
ManaPool_add_unchecked(pool, mana_type, amount) ==
    [pool EXCEPT ![mana_type] = @ + amount]

ManaPool_add(pool, mana_type, amount) ==
    IF amount <= 0 THEN pool ELSE [pool EXCEPT ![mana_type] = @ + amount]

\* the cost's specific (non-"generic") components, as a total function
SpecificCost(cost) == [k \in PoolKeys |-> DictGet(cost, k, 0)]

RECURSIVE SumOver(_, _)
SumOver(f, S) ==
    IF S = {} THEN 0
    ELSE LET x == CHOOSE y \in S : TRUE IN f[x] + SumOver(f, S \ {x})

\* the pool after the specific components were taken from their own kind
AfterSpecific(pool, cost) == [k \in PoolKeys |-> pool[k] - SpecificCost(cost)[k]]

\* can_spend() that compares the totals only
ManaPool_can_spend_totals(pool, cost) ==
    SumOver(pool, PoolKeys) >= SumOver(cost, DOMAIN cost)

\* can_spend() that simulates the payment in self._pool, not in a copy of it
ManaPool_can_spend_in_place(pool, cost) ==
    [k \in PoolKeys |-> IF pool[k] >= SpecificCost(cost)[k]
                        THEN pool[k] - SpecificCost(cost)[k] ELSE pool[k]]

\* self._pool after can_spend(cost): the simulation runs in temp_pool, a copy
ManaPool_after_can_spend(pool, cost) == pool

ManaPool_can_spend(pool, cost) ==
    /\ \A k \in PoolKeys : pool[k] >= SpecificCost(cost)[k]
    /\ SumOver(AfterSpecific(pool, cost), PoolKeys) >= DictGet(cost, "generic", 0)

\* the list of spend() without its last kind
\* the order of payment turned round
mana_types_green_first == <<"GREEN", "RED", "BLACK", "BLUE", "WHITE", "COLORLESS">>

mana_types_but_green == <<"COLORLESS", "WHITE", "BLUE", "BLACK", "RED">>

mana_types_for_generic == <<"COLORLESS", "WHITE", "BLUE", "BLACK", "RED", "GREEN">>

\* the loop of spend() over mana_types_for_generic, from position i on:
\* <<pool, generic still to pay>>
RECURSIVE PayGeneric(_, _, _)
PayGeneric(temp_pool, generic_to_pay, i) ==
    IF i > Len(mana_types_for_generic) THEN <<temp_pool, generic_to_pay>>
    ELSE LET mana_type == mana_types_for_generic[i]
             spend_amount == Min(generic_to_pay, temp_pool[mana_type])
             pool2 == IF spend_amount > 0
                      THEN [temp_pool EXCEPT ![mana_type] = @ - spend_amount]
                      ELSE temp_pool
             left == IF spend_amount > 0 THEN generic_to_pay - spend_amount
                     ELSE generic_to_pay
         IN  IF left = 0 THEN <<pool2, left>> ELSE PayGeneric(pool2, left, i + 1)

\* spend(cost): <<the pool afterwards, success>>
ManaPool_spend(pool, cost) ==
    IF ~ManaPool_can_spend(pool, cost) THEN <<pool, FALSE>>
    ELSE LET paid == PayGeneric(AfterSpecific(pool, cost), DictGet(cost, "generic", 0), 1)
         IN  IF paid[2] > 0 THEN <<pool, FALSE>> ELSE <<paid[1], TRUE>>

ManaPool_empty(pool) == EmptyPool

(***************************************************************************)
(* Priority managers.  pm is the manager object: player_with_priority,     *)
(* the solitaire manager's _passed flag and the two-player manager's       *)
(* _passed_priority_in_succession list.                                    *)
(***************************************************************************)
NewPriorityManager ==
    [player_with_priority |-> None, passed |-> FALSE, passed_priority_in_succession |-> <<>>]

Solitaire_pass_priority(pm, player) ==
    IF Some(player) = pm.player_with_priority
    THEN [pm EXCEPT !.player_with_priority = None, !.passed = TRUE]
    ELSE pm

Solitaire_set_priority(pm, player) ==
    [pm EXCEPT !.player_with_priority = player, !.passed = FALSE]

\* check_stack_resolve: the value returned, and the manager afterwards
Solitaire_resolve(pm) == pm.passed
Solitaire_check_stack_resolve(pm) ==
    IF Solitaire_resolve(pm) THEN [pm EXCEPT !.passed = FALSE] ELSE pm

\* a pass_priority that hands priority over whether or not the other passed
TwoPlayer_pass_priority_hands_over(pm, player, players) ==
    IF Some(player) # pm.player_with_priority THEN pm
    ELSE LET passed == IF ~Contains(pm.passed_priority_in_succession, player)
                       THEN Append(pm.passed_priority_in_succession, player)
                       ELSE pm.passed_priority_in_succession
             other_player == IF player = players[2] THEN players[1] ELSE players[2]
         IN  [pm EXCEPT !.passed_priority_in_succession = passed,
                        !.player_with_priority = Some(other_player)]

TwoPlayer_pass_priority(pm, player, players) ==
    IF Some(player) # pm.player_with_priority THEN pm
    ELSE LET passed == IF ~Contains(pm.passed_priority_in_succession, player)
                       THEN Append(pm.passed_priority_in_succession, player)
                       ELSE pm.passed_priority_in_succession
             other_player == IF player = players[2] THEN players[1] ELSE players[2]
         IN  IF Contains(passed, other_player)
             THEN [pm EXCEPT !.passed_priority_in_succession = passed,
                             !.player_with_priority = None]
             ELSE [pm EXCEPT !.passed_priority_in_succession = passed,
                             !.player_with_priority = Some(other_player)]

\* a set_priority that forgets to reset the pass tracking
TwoPlayer_set_priority_keeps_passes(pm, player) ==
    [pm EXCEPT !.player_with_priority = player]

TwoPlayer_set_priority(pm, player) ==
    [pm EXCEPT !.player_with_priority = player, !.passed_priority_in_succession = <<>>]

\* a check_stack_resolve that looks at the priority holder only
TwoPlayer_resolve_without_passes(pm) == pm.player_with_priority = None

TwoPlayer_resolve(pm) ==
    pm.player_with_priority = None /\ Len(pm.passed_priority_in_succession) = 2
\* a check_stack_resolve that leaves the list of passes as it is
TwoPlayer_check_stack_resolve_keeps_record(pm) == pm

TwoPlayer_check_stack_resolve(pm) ==
    IF TwoPlayer_resolve(pm) THEN [pm EXCEPT !.passed_priority_in_succession = <<>>] ELSE pm

(***************************************************************************)
(* The game state g and the calls on game.priority_manager.  g.log is the  *)
(* sequence of calls made by the handler that ran last; g.passes is the    *)
(* set of players that passed priority since priority was last set (both   *)
(* are observations of the run, no field of the program; so are g.asked,   *)
(* the player the last handler asked for an action, and g.before, what the *)
(* pass set, the stack and the turn manager were when that handler began). *)
(***************************************************************************)
Log(g, e) == [g EXCEPT !.log = Append(@, e)]

IsSolitaire(g) == Len(g.players) = 1

pass_priority(g, player) ==
    LET g1 == [g EXCEPT !.pm = IF IsSolitaire(g) THEN Solitaire_pass_priority(@, player)
                               ELSE TwoPlayer_pass_priority(@, player, g.players),
                        !.passes = IF g.pm.player_with_priority = Some(player)
                                   THEN @ \cup {player} ELSE @]
    IN  Log(g1, "pass_priority")

set_priority(g, player) ==
    LET g1 == [g EXCEPT !.pm = IF IsSolitaire(g) THEN Solitaire_set_priority(@, player)
                               ELSE TwoPlayer_set_priority(@, player),
                        !.passes = {}]
    IN  Log(g1, IF player = None THEN "set_priority_none" ELSE "set_priority")

get_current_player(g) == g.pm.player_with_priority

\* the value check_stack_resolve(game) returns
stack_resolve(g) == IF IsSolitaire(g) THEN Solitaire_resolve(g.pm) ELSE TwoPlayer_resolve(g.pm)

check_stack_resolve(g) ==
    Log([g EXCEPT !.pm = IF IsSolitaire(g) THEN Solitaire_check_stack_resolve(@)
                         ELSE TwoPlayer_check_stack_resolve(@)],
        "check_stack_resolve")

(***************************************************************************)
(* Object registry and game objects.                                       *)
(***************************************************************************)
\* register_object: an id that is already present is overwritten (a warning)
\* generate_object_id and generate_timestamp on a record r that holds the two
\* counters: the value returned is the counter before the call
\* a generate_object_id that leaves the counter where it is
generate_object_id_stuck(r) == r

new_object_id(r) == r.next_object_id
generate_object_id(r) == [r EXCEPT !.next_object_id = @ + 1]

new_timestamp(r) == r.next_timestamp
generate_timestamp(r) == [r EXCEPT !.next_timestamp = @ + 1]

register_object(objects, obj) == (obj.id :> obj) @@ objects

\* ConcretePermanent(game, obj_id, card_data, owner, controller, zone); the
\* timestamp is the one generate_timestamp() hands out in GameObject.__init__.
\* zone is the attribute `zone`, which the constructor does not create.
ConcretePermanent(obj_id, card_data, owner, zone, timestamp) ==
    [id |-> obj_id, card_data |-> card_data, owner |-> owner, controller |-> owner,
     current_zone |-> zone, zone |-> "unset", timestamp |-> timestamp, tapped |-> FALSE]

IsLibrary(zone_id) == zone_id \in {"library_0", "library_1"}

\* target_zone.add(self.id): Library overrides add (default: the top), the
\* other zones append
ZoneAddDefault(zones, zone_id, obj_id) ==
    [zones EXCEPT ![zone_id] = IF IsLibrary(zone_id) THEN Library_add(@, obj_id, None, FALSE)
                               ELSE Zone_add(@, obj_id, None)]

\* obj.move_to_zone(target_zone, game)
move_to_zone(g, obj_id, target_zone) ==
    [g EXCEPT !.objects[obj_id].current_zone = target_zone,
              !.zones = ZoneAddDefault(@, target_zone, obj_id)]

IsLand(obj) == "LAND" \in obj.card_data.card_types

\* zone.get_objects(game): the registered objects of the zone, in zone order
get_objects(g, zone_id) ==
    SelectSeq(g.zones[zone_id], LAMBDA oid : oid \in DOMAIN g.objects)

(***************************************************************************)
(* Win / loss.                                                             *)
(***************************************************************************)
end_game(g, result, winner) ==
    IF ~g.game_over
    THEN [g EXCEPT !.game_over = TRUE, !.game_result = Some([result |-> result, winner |-> winner])]
    ELSE g

\* the check with `<` where the code has `<=`: a life total of 0 is no loss
Losers_below_zero(g) == SelectSeq(g.players, LAMBDA p : g.life[p] < 0)

\* the players with life <= 0, in the order of game.players
Losers(g) == SelectSeq(g.players, LAMBDA p : g.life[p] <= 0)

\* the value check_win_loss_condition() returns
win_loss(g) == g.game_over \/ Losers(g) # <<>>

check_win_loss_condition(g) ==
    IF g.game_over \/ Losers(g) = <<>> THEN Log(g, "check_win_loss")
    ELSE LET player == Losers(g)[1]
             winner == IF Len(g.players) = 2
                       THEN Some(CHOOSE q \in Range(g.players) : q # player)
                       ELSE None
             result == IF Len(g.players) = 1 THEN "LOSS" ELSE "WIN"
         IN  end_game(Log(g, "check_win_loss"), result, winner)

\* game.sba_checker.check_and_perform(game): whether the checker performed an
\* action.  g.sba_results holds what the checker answers to the calls of the
\* handler that is running; StubSbaChecker is the checker whose answers are
\* all False (an empty g.sba_results).
check_and_perform(g) == g.sba_results # <<>> /\ Head(g.sba_results)

\* ConcreteGame.check_state_based_actions
check_state_based_actions(g) ==
    Log([g EXCEPT !.sba_results = IF @ = <<>> THEN @ ELSE Tail(@)],
        IF check_and_perform(g) THEN "sba_true" ELSE "sba_false")

(***************************************************************************)
(* ConcretePlayer.                                                         *)
(***************************************************************************)
\* one round of the loop of draw_cards, for a library that is not empty
draw_one(g, p) ==
    LET library == g.zones[LibraryId(p)]
        card_id == library[1]
        g1 == [g EXCEPT !.zones[LibraryId(p)] = Tail(library)]
    IN  IF card_id # 0 /\ card_id \in DOMAIN g1.objects
        THEN move_to_zone(g1, card_id, HandId(p))
        ELSE g1

RECURSIVE draw_cards(_, _, _)
draw_cards(g, p, number) ==
    IF number = 0 THEN g
    ELSE IF g.zones[LibraryId(p)] = <<>>
         THEN check_win_loss_condition(
                  Log([g EXCEPT !.empty_draw = @ \cup {p}], "draw_empty"))
    ELSE draw_cards(draw_one(g, p), p, number - 1)

lose_life(g, p, amount) ==
    check_win_loss_condition([g EXCEPT !.life[p] = @ - amount])

\* gain_life: no check follows, and the amount is whatever the caller hands in
gain_life(g, p, amount) == [g EXCEPT !.life[p] = @ + amount]

reset_turn_based_state(g, p) == [g EXCEPT !.lands_played_this_turn[p] = 0]

(***************************************************************************)
(* SimpleTurnManager.  tm is the manager object.                           *)
(***************************************************************************)
NewTurnManager(players, starting_player_index) ==
    [players |-> players,
     active_player_index |-> starting_player_index,
     active_player |-> players[starting_player_index + 1],
     turn_number |-> 0,
     current_phase |-> "BEGINNING",
     current_step |-> "UNTAP",
     phase_index |-> 0,
     step_index |-> 0 - 1]

\* a start_turn that never hands the turn to the next player
start_turn_same_player(tm) ==
    [tm EXCEPT !.turn_number = @ + 1,
               !.phase_index = IndexOf(PHASE_ORDER, "BEGINNING") - 1,
               !.step_index = 0 - 1]

start_turn(tm) ==
    LET next_index == (tm.active_player_index + 1) % Len(tm.players)
        tm1 == IF tm.turn_number > 0
               THEN [tm EXCEPT !.active_player_index = next_index,
                               !.active_player = tm.players[next_index + 1]]
               ELSE tm
    IN  [tm1 EXCEPT !.turn_number = @ + 1,
                    !.phase_index = IndexOf(PHASE_ORDER, "BEGINNING") - 1,
                    !.step_index = 0 - 1]

\* the part of advance() that moves to the next step or phase
next_step(tm) ==
    LET step_index == tm.step_index + 1
    IN  IF step_index >= Len(STEP_ORDER[tm.current_phase])
        THEN LET phase_index == (tm.phase_index + 1) % Len(PHASE_ORDER)
                 current_phase == PHASE_ORDER[phase_index + 1]
                 tm1 == [tm EXCEPT !.phase_index = phase_index,
                                   !.current_phase = current_phase,
                                   !.step_index = 0]
             IN  IF current_phase = "BEGINNING"
                 THEN LET tm2 == start_turn(tm1)
                      IN  [tm2 EXCEPT !.current_step =
                               PyIndex(STEP_ORDER[tm2.current_phase], tm2.step_index)]
                 ELSE [tm1 EXCEPT !.current_step =
                               PyIndex(STEP_ORDER[current_phase], tm1.step_index)]
        ELSE [tm EXCEPT !.step_index = step_index,
                        !.current_step = PyIndex(STEP_ORDER[tm.current_phase], step_index)]

\* does the next advance() start a new turn?
StartsTurn(tm) ==
    /\ tm.step_index + 1 >= Len(STEP_ORDER[tm.current_phase])
    /\ PHASE_ORDER[((tm.phase_index + 1) % Len(PHASE_ORDER)) + 1] = "BEGINNING"

untap(obj) == IF obj.tapped THEN [obj EXCEPT !.tapped = FALSE] ELSE obj
tap(obj) == IF ~obj.tapped THEN [obj EXCEPT !.tapped = TRUE] ELSE obj

\* an untap step that untaps the permanents of every player
perform_untap_step_of_all(g) ==
    LET g1 == reset_turn_based_state(g, g.tm.active_player)
        on_battlefield == Range(get_objects(g1, BATTLEFIELD))
    IN  [g1 EXCEPT !.objects =
            [oid \in DOMAIN @ |-> IF oid \in on_battlefield THEN untap(@[oid]) ELSE @[oid]]]

perform_untap_step(g) ==
    LET g1 == reset_turn_based_state(g, g.tm.active_player)
        on_battlefield == Range(get_objects(g1, BATTLEFIELD))
    IN  [g1 EXCEPT !.objects =
            [oid \in DOMAIN @ |->
                IF oid \in on_battlefield /\ @[oid].controller = g.tm.active_player
                THEN untap(@[oid]) ELSE @[oid]]]

perform_draw_step(g) ==
    IF g.tm.turn_number > 0 THEN draw_cards(g, g.tm.active_player, 1) ELSE g

perform_cleanup_step(g) ==
    [g EXCEPT !.mana_pool = [p \in DOMAIN @ |-> ManaPool_empty(@[p])]]

turn_based_actions(g) ==
    IF g.tm.current_step = "UNTAP" THEN perform_untap_step(g)
    ELSE IF g.tm.current_step = "DRAW" THEN perform_draw_step(g)
    ELSE IF g.tm.current_step = "CLEANUP" THEN perform_cleanup_step(g)
    ELSE g

\* a priority part of advance() that makes no exception of Untap and Cleanup
grant_priority_every_step(g) == set_priority(g, Some(g.tm.active_player))

\* the priority part of advance()
grant_priority(g) ==
    IF g.tm.current_step \notin {"UNTAP", "CLEANUP"}
    THEN set_priority(g, Some(g.tm.active_player))
    ELSE set_priority(g, None)

advance(g) ==
    grant_priority(turn_based_actions(Log([g EXCEPT !.tm = next_step(@)], "advance")))

current_turn_player(g) == g.tm.active_player

(***************************************************************************)
(* ConcreteGame: the handlers of the main loop.                            *)
(***************************************************************************)
IsMainPhase(g) == g.tm.current_phase \in {"PRECOMBAT_MAIN", "POSTCOMBAT_MAIN"}

LandsInHand(g, player) ==
    SelectSeq(get_objects(g, HandId(player)), LAMBDA oid : IsLand(g.objects[oid]))

UntappedLands(g, player) ==
    SelectSeq(get_objects(g, BATTLEFIELD),
              LAMBDA oid : /\ g.objects[oid].controller = player
                           /\ IsLand(g.objects[oid])
                           /\ ~g.objects[oid].tapped)

\* _get_legal_actions without the look at lands_played_this_turn
get_legal_actions_any_number(g, player) ==
    {"pass"}
    \cup (IF /\ player = current_turn_player(g)
             /\ IsMainPhase(g)
             /\ g.zones[STACK] = <<>>
             /\ LandsInHand(g, player) # <<>>
          THEN {"play_land"} ELSE {})
    \cup (IF UntappedLands(g, player) # <<>> THEN {"tap_land"} ELSE {})

get_legal_actions(g, player) ==
    {"pass"}
    \cup (IF /\ player = current_turn_player(g)
             /\ IsMainPhase(g)
             /\ g.zones[STACK] = <<>>
             /\ g.lands_played_this_turn[player] < 1
             /\ LandsInHand(g, player) # <<>>
          THEN {"play_land"} ELSE {})
    \cup (IF UntappedLands(g, player) # <<>> THEN {"tap_land"} ELSE {})

\* _execute_play_land with the land copied to the battlefield and left in hand
execute_play_land_keeps_hand(g, player, chosen) ==
    IF LandsInHand(g, player) = <<>> THEN g
    ELSE IF chosen = None THEN pass_priority(g, player)
    ELSE LET oid == chosen[1]
             g1 == [g EXCEPT !.zones[BATTLEFIELD] = Zone_add(@, oid, None),
                             !.objects[oid].zone = BATTLEFIELD,
                             !.objects[oid].controller = player,
                             !.lands_played_this_turn[player] = @ + 1]
         IN  check_state_based_actions(set_priority(Log(g1, "play_land"), Some(player)))

\* _execute_play_land; chosen is what choose_card_from_list returns (None or
\* Some(object id))
execute_play_land(g, player, chosen) ==
    IF LandsInHand(g, player) = <<>> THEN g
    ELSE IF chosen = None THEN pass_priority(g, player)
    ELSE LET oid == chosen[1]
             g1 == [g EXCEPT !.zones[HandId(player)] = Zone_remove(@, oid),
                             !.zones[BATTLEFIELD] = Zone_add(@, oid, None),
                             !.objects[oid].zone = BATTLEFIELD,
                             !.objects[oid].controller = player,
                             !.lands_played_this_turn[player] = @ + 1]
         IN  check_state_based_actions(set_priority(Log(g1, "play_land"), Some(player)))

\* PlayLandCommand.is_legal
PlayLand_is_legal(g, player) ==
    /\ player = current_turn_player(g)
    /\ IsMainPhase(g)
    /\ g.zones[STACK] = <<>>
    /\ g.lands_played_this_turn[player] < 1
    /\ LandsInHand(g, player) # <<>>

\* PlayLandCommand.execute; land_to_play is None or Some(object id), the land
\* the command was built with or the one choose_card_from_list returns
PlayLand_execute(g, player, land_to_play) ==
    IF ~PlayLand_is_legal(g, player)
    THEN pass_priority(Log(g, "play_land_illegal"), player)
    ELSE IF land_to_play = None THEN g
    ELSE LET oid == land_to_play[1]
             g1 == [g EXCEPT !.zones[HandId(player)] = Zone_remove(@, oid),
                             !.zones[BATTLEFIELD] = Zone_add(@, oid, None),
                             !.objects[oid].zone = BATTLEFIELD,
                             !.objects[oid].controller = player,
                             !.lands_played_this_turn[player] = @ + 1]
         IN  check_state_based_actions(set_priority(Log(g1, "play_land"), Some(player)))

\* the mana of a land, were every land to produce white
mana_produced_white(obj) ==
    IF obj.card_data.name \in {"Plains", "Forest"} THEN Some("WHITE") ELSE None

mana_produced(obj) ==
    IF obj.card_data.name = "Plains" THEN Some("WHITE")
    ELSE IF obj.card_data.name = "Forest" THEN Some("GREEN")
    ELSE None

\* _execute_tap_land; chosen is what choose_permanent_from_list returns
execute_tap_land(g, player, chosen) ==
    IF UntappedLands(g, player) = <<>> THEN g
    ELSE IF chosen = None THEN pass_priority(g, player)
    ELSE LET oid == chosen[1]
             g1 == [g EXCEPT !.objects[oid] = tap(@)]
             produced == mana_produced(g.objects[oid])
             g2 == IF produced # None
                   THEN [g1 EXCEPT !.mana_pool[player] = ManaPool_add(@, produced[1], 1)]
                   ELSE g1
         IN  check_state_based_actions(set_priority(Log(g2, "tap_land"), Some(player)))

\* _execute_action; action is None or Some(string), choice the answer of the
\* input handler to the question the action asks
execute_action(g, player, action, choice) ==
    IF action = Some("pass") THEN pass_priority(g, player)
    ELSE IF action = Some("play_land") THEN execute_play_land(g, player, choice)
    ELSE IF action = Some("tap_land") THEN execute_tap_land(g, player, choice)
    ELSE pass_priority(Log(g, "unknown_action"), player)

resolve_top_stack_object(g) ==
    IF g.zones[STACK] # <<>>
    THEN LET g1 == Log([g EXCEPT !.zones[STACK] = Stack_pop(@)], "pop")
         IN  set_priority(check_state_based_actions(g1), Some(current_turn_player(g)))
    ELSE g

(***************************************************************************)
(* CastSpellCommand.                                                       *)
(***************************************************************************)
\* can_cast_specific_spell without the sorcery-speed timing test
can_cast_specific_spell_any_time(g, player, oid, check_costs) ==
    LET spell == g.objects[oid]
    IN  /\ Contains(g.zones[HandId(player)], oid)
        /\ (check_costs /\ spell.card_data.mana_cost # None) =>
               ManaPool_can_spend(g.mana_pool[player], spell.card_data.mana_cost[1])

can_cast_specific_spell(g, player, oid, check_costs) ==
    LET spell == g.objects[oid]
        is_sorcery_speed == "INSTANT" \notin spell.card_data.card_types
        timing_ok == /\ player = current_turn_player(g)
                     /\ IsMainPhase(g)
                     /\ g.zones[STACK] = <<>>
    IN  /\ ~(is_sorcery_speed /\ ~timing_ok)
        /\ Contains(g.zones[HandId(player)], oid)
        /\ (check_costs /\ spell.card_data.mana_cost # None) =>
               ManaPool_can_spend(g.mana_pool[player], spell.card_data.mana_cost[1])

\* ConcretePlayer.pay_cost for a ManaCost (isinstance(cost, ManaCost) holds for
\* a SimpleManaCost): a failed spend is reported only
pay_cost(g, player, cost) ==
    [g EXCEPT !.mana_pool[player] = ManaPool_spend(@, cost)[1]]

\* CastSpellCommand.execute with the card put on the stack before the cost is looked at
CastSpell_execute_moves_first(g, player, oid) ==
    LET mana_cost == g.objects[oid].card_data.mana_cost
        g1 == [g EXCEPT !.zones[HandId(player)] = Zone_remove(@, oid),
                        !.zones[STACK] = Zone_add(@, oid, None),
                        !.objects[oid].zone = STACK]
    IN  IF ~can_cast_specific_spell(g, player, oid, FALSE) THEN Log(g, "cast_illegal")
        ELSE IF mana_cost # None /\ ~ManaPool_can_spend(g.mana_pool[player], mana_cost[1])
        THEN Log(g1, "cast_unpayable")
        ELSE LET g2 == IF mana_cost # None THEN pay_cost(g1, player, mana_cost[1]) ELSE g1
             IN  check_state_based_actions(set_priority(Log(g2, "cast"), Some(player)))

CastSpell_execute(g, player, oid) ==
    LET mana_cost == g.objects[oid].card_data.mana_cost
    IN  IF ~can_cast_specific_spell(g, player, oid, FALSE) THEN Log(g, "cast_illegal")
        ELSE IF mana_cost # None /\ ~ManaPool_can_spend(g.mana_pool[player], mana_cost[1])
        THEN Log(g, "cast_unpayable")
        ELSE LET g1 == [g EXCEPT !.zones[HandId(player)] = Zone_remove(@, oid),
                                 !.zones[STACK] = Zone_add(@, oid, None),
                                 !.objects[oid].zone = STACK]
                 g2 == IF mana_cost # None THEN pay_cost(g1, player, mana_cost[1]) ELSE g1
             IN  check_state_based_actions(set_priority(Log(g2, "cast"), Some(player)))

(***************************************************************************)
(* start_game.                                                             *)
(***************************************************************************)
PlayerLists == {<<0>>, <<0, 1>>}

\* ConcreteGame() followed by the creation of the players and the managers
NewGame(players) ==
    [players |-> players,
     zones |-> [z \in ZoneIds(players) |-> <<>>],
     objects |-> <<>>,
     next_object_id |-> 0,
     next_timestamp |-> 0,
     life |-> [p \in Range(players) |-> 20],
     lands_played_this_turn |-> [p \in Range(players) |-> 0],
     mana_pool |-> [p \in Range(players) |-> EmptyPool],
     tm |-> NewTurnManager(players, 0),
     pm |-> NewPriorityManager,
     game_over |-> FALSE,
     game_result |-> None,
     log |-> <<>>,
     passes |-> {},
     asked |-> None,
     sba_results |-> <<>>,
     empty_draw |-> {},
     spell |-> None,
     before |-> [passes |-> {}, stack |-> <<>>, tm |-> NewTurnManager(players, 0),
                 zones |-> [z \in ZoneIds(players) |-> <<>>], empty_draw |-> {},
                 pm |-> NewPriorityManager, objects |-> <<>>,
                 mana_pool |-> [p \in Range(players) |-> EmptyPool],
                 lands_played_this_turn |-> [p \in Range(players) |-> 0]]]

\* one round of the loop that populates a library
add_card(g, player, card_data) ==
    LET obj == ConcretePermanent(g.next_object_id, card_data, player,
                                 LibraryId(player), g.next_timestamp)
    IN  [g EXCEPT !.next_object_id = @ + 1,
                  !.next_timestamp = @ + 1,
                  !.objects = register_object(@, obj),
                  !.zones[LibraryId(player)] = Library_add(@, obj.id, None, TRUE)]

RECURSIVE populate_library(_, _, _)
populate_library(g, player, k) ==
    IF k > Len(DeckList(player)) THEN g
    ELSE populate_library(add_card(g, player, DeckList(player)[k]), player, k + 1)

RECURSIVE populate_libraries(_, _)
populate_libraries(g, i) ==
    IF i > Len(g.players) THEN g
    ELSE populate_libraries(populate_library(g, g.players[i], 1), i + 1)

\* the same loops for deck lists handed in: decks[p] is the list of player p
RECURSIVE populate_deck(_, _, _, _)
populate_deck(g, player, deck, k) ==
    IF k > Len(deck) THEN g
    ELSE populate_deck(add_card(g, player, deck[k]), player, deck, k + 1)

RECURSIVE populate_decks(_, _, _)
populate_decks(g, decks, i) ==
    IF i > Len(g.players) THEN g
    ELSE populate_decks(populate_deck(g, g.players[i], decks[g.players[i]], 1), decks, i + 1)

\* decks of basic lands only, as the solitaire tests use: Plains and Forests
\* in turn, player 0 beginning with a Plains and player 1 with a Forest
LandDeck(p) ==
    [k \in 1..DeckSize |-> IF (k + p) % 2 = 1 THEN PlainsData ELSE ForestData]

\* library.shuffle(): order[p] is the permutation random.shuffle picks
shuffle(g, order) ==
    [g EXCEPT !.zones =
        [z \in DOMAIN @ |->
            IF \E p \in Range(g.players) : z = LibraryId(p)
            THEN LET p == CHOOSE q \in Range(g.players) : z = LibraryId(q)
                 IN  [k \in 1..Len(@[z]) |-> @[z][order[p][k]]]
            ELSE @[z]]]

RECURSIVE draw_starting_hands(_, _)
draw_starting_hands(g, i) ==
    IF i > Len(g.players) THEN g
    ELSE draw_starting_hands(draw_cards(g, g.players[i], StartingHandSize), i + 1)

\* the rest of start_game, after the libraries were populated and shuffled
start_game(g) ==
    LET g1 == draw_starting_hands(g, 1)
        g2 == [g1 EXCEPT !.tm = start_turn(@)]
    IN  advance(advance(g2))

(***************************************************************************)
(* The fixture of the casting tests: a started game whose phase and step   *)
(* are forced, whose first player is given priority, a card in hand made   *)
(* for the purpose and a mana pool filled by hand.                         *)
(***************************************************************************)
set_phase_step(g, phase, step) ==
    [g EXCEPT !.tm.current_phase = phase, !.tm.current_step = step]

put_card_in_hand(g, player, card_data) ==
    LET obj == ConcretePermanent(new_object_id(g), card_data, player, "unset",
                                 new_timestamp(g))
        g1 == generate_timestamp(generate_object_id(g))
        g2 == [g1 EXCEPT !.objects = register_object(@, obj)]
    IN  move_to_zone(g2, obj.id, HandId(player))

RECURSIVE AddEach(_, _, _)
AddEach(pool, mana, keys) ==
    IF keys = {} THEN pool
    ELSE LET k == CHOOSE x \in keys : TRUE
         IN  AddEach(ManaPool_add(pool, k, mana[k]), mana, keys \ {k})

give_player_mana(g, player, mana) ==
    [g EXCEPT !.mana_pool[player] = AddEach(EmptyPool, mana, DOMAIN mana)]

\* the mana dicts the tests hand out, up to MaxMana mana of white and green
ManaDicts == {m \in [{"WHITE", "GREEN"} -> 0..MaxMana] : m["WHITE"] + m["GREEN"] <= MaxMana}

CastFixture(g, card_data, mana) ==
    LET player == g.players[1]
        g1 == set_phase_step(g, "PRECOMBAT_MAIN", "MAIN")
        g2 == set_priority(g1, Some(player))
        g3 == put_card_in_hand(g2, player, card_data)
    IN  give_player_mana(g3, player, mana)

(***************************************************************************)
(* The state machine.  Init is start_game at the point where the libraries *)
(* are populated and shuffled.                                             *)
(***************************************************************************)
\* the components that the other specifications exercise alone
NewStackZone == [objs |-> <<>>, pushed |-> <<>>, op |-> "new", ret |-> None,
                 due |-> None, before |-> <<>>]
NewRegistry ==
    [objects |-> <<>>, next_object_id |-> 0, next_timestamp |-> 0,
     op |-> "new", ret |-> None, arg |-> None, ids |-> {}, timestamps |-> {},
     before |-> [objects |-> <<>>, next_object_id |-> 0, next_timestamp |-> 0,
                 ids |-> {}, timestamps |-> {}]]

NewLedger ==
    [pool |-> EmptyPool, op |-> "idle", prior |-> EmptyPool, kind |-> "", amount |-> 0,
     cost |-> [k \in PoolKeys \cup {"generic"} |-> 0], ok |-> TRUE, again |-> TRUE]

Init ==
    /\ pc = "setup"
    /\ \E players \in PlayerLists :
       \E order \in [Range(players) -> Perms(1..DeckSize)] :
          game = shuffle(populate_libraries(NewGame(players), 1), order)
    /\ stack_zone = NewStackZone
    /\ ledger = NewLedger
    /\ registry = NewRegistry

\* what a handler that begins records of the state it begins in
Begin(g, event) ==
    [g EXCEPT !.log = <<event>>,
              !.asked = None,
              !.spell = None,
              !.before = [passes |-> g.passes, stack |-> g.zones[STACK], tm |-> g.tm,
                          zones |-> g.zones, empty_draw |-> g.empty_draw,
                          pm |-> g.pm, objects |-> g.objects,
                          mana_pool |-> g.mana_pool,
                          lands_played_this_turn |-> g.lands_played_this_turn]]

\* the handler is over: the answers of the checker it did not ask for are gone
End(g) == [g EXCEPT !.sba_results = <<>>]

\* the solitaire tests: a game with decks of lands only
LandInit ==
    /\ pc = "setup"
    /\ \E players \in PlayerLists :
       \E order \in [Range(players) -> Perms(1..DeckSize)] :
          game = shuffle(populate_decks(NewGame(players),
                                        [p \in Range(players) |-> LandDeck(p)], 1),
                         order)
    /\ stack_zone = NewStackZone
    /\ ledger = NewLedger
    /\ registry = NewRegistry

\* the casting tests: the fixture, then casts, passes and resolutions
CastInit ==
    /\ pc = "loop"
    /\ \E players \in PlayerLists :
       \E order \in [Range(players) -> Perms(1..DeckSize)] :
       \E card_data \in {SavannahLionsData, GrizzlyBearsData}, mana \in ManaDicts :
          game = Begin(CastFixture(
                           start_game(shuffle(populate_libraries(NewGame(players), 1),
                                              order)),
                           card_data, mana), "fixture")
    /\ stack_zone = NewStackZone
    /\ ledger = NewLedger
    /\ registry = NewRegistry

StartGame ==
    /\ pc = "setup"
    /\ game' = start_game(Begin(game, "start_game"))
    /\ pc' = "loop"
    /\ UNCHANGED <<stack_zone, ledger, registry>>

\* the answers of game.sba_checker in one iteration: it performs an action on
\* each of its first n calls, none afterwards
SbaResults == {[i \in 1..n |-> TRUE] : n \in 0..MaxSbaActions}

\* the top of an iteration of run_main_loop that finds the game going on
Running == pc = "loop" /\ ~win_loss(game)

LoopTop(g, results) ==
    check_state_based_actions(
        check_win_loss_condition([Begin(g, "loop") EXCEPT !.sba_results = results]))

Holder == get_current_player(game)[1]

\* the player with priority is asked for an action
Ask(g, player) == [Log(g, "choose_action") EXCEPT !.asked = Some(player)]

\* the player with priority hands in a CastSpellCommand for the object
Announce(g, oid) == [g EXCEPT !.spell = Some(oid)]

\* `while not self.game_over` fails, or check_win_loss_condition() breaks
LoopEnd ==
    /\ pc = "loop"
    /\ win_loss(game)
    /\ game' = IF game.game_over THEN Begin(game, "loop")
               ELSE check_win_loss_condition(Begin(game, "loop"))
    /\ pc' = "done"
    /\ UNCHANGED <<stack_zone, ledger, registry>>

ActPass ==
    /\ Running
    /\ get_current_player(game) # None
    /\ \E r \in SbaResults :
          game' = End(execute_action(Ask(LoopTop(game, r), Holder), Holder, Some("pass"), None))
    /\ pc' = pc
    /\ UNCHANGED <<stack_zone, ledger, registry>>

\* the input handler returns no action (None), an action _execute_action
\* does not know
ActNone ==
    /\ Running
    /\ get_current_player(game) # None
    /\ \E r \in SbaResults :
          game' = End(execute_action(Ask(LoopTop(game, r), Holder), Holder, None, None))
    /\ pc' = pc
    /\ UNCHANGED <<stack_zone, ledger, registry>>

ActPlayLand ==
    /\ Running
    /\ get_current_player(game) # None
    /\ "play_land" \in get_legal_actions(game, Holder)
    /\ \E r \in SbaResults, oid \in Range(LandsInHand(game, Holder)) :
          game' = End(execute_action(Ask(LoopTop(game, r), Holder), Holder,
                                     Some("play_land"), Some(oid)))
    /\ pc' = pc
    /\ UNCHANGED <<stack_zone, ledger, registry>>

\* the player with priority hands in a PlayLandCommand, legal or not
ActPlayLandCommand ==
    /\ Running
    /\ get_current_player(game) # None
    /\ \E r \in SbaResults,
          land \in {None} \cup {Some(oid) : oid \in Range(LandsInHand(game, Holder))} :
          game' = End(PlayLand_execute(Ask(LoopTop(game, r), Holder), Holder, land))
    /\ pc' = pc
    /\ UNCHANGED <<stack_zone, ledger, registry>>

ActTapLand ==
    /\ Running
    /\ get_current_player(game) # None
    /\ "tap_land" \in get_legal_actions(game, Holder)
    /\ \E r \in SbaResults, oid \in Range(UntappedLands(game, Holder)) :
          game' = End(execute_action(Ask(LoopTop(game, r), Holder), Holder,
                                     Some("tap_land"), Some(oid)))
    /\ pc' = pc
    /\ UNCHANGED <<stack_zone, ledger, registry>>

\* the player with priority chooses a CastSpellCommand for a card that is no land
ActCast ==
    /\ Running
    /\ get_current_player(game) # None
    /\ \E r \in SbaResults, oid \in DOMAIN game.objects :
          /\ ~IsLand(game.objects[oid])
          /\ game' = End(CastSpell_execute(Announce(Ask(LoopTop(game, r), Holder), oid),
                                           Holder, oid))
    /\ pc' = pc
    /\ UNCHANGED <<stack_zone, ledger, registry>>

\* nobody has priority and check_stack_resolve() is true
ResolveStack ==
    /\ Running
    /\ get_current_player(game) = None
    /\ stack_resolve(game)
    /\ game.zones[STACK] # <<>>
    /\ \E r \in SbaResults :
          game' = End(resolve_top_stack_object(check_stack_resolve(LoopTop(game, r))))
    /\ pc' = pc
    /\ UNCHANGED <<stack_zone, ledger, registry>>

AdvanceTurn ==
    /\ Running
    /\ get_current_player(game) = None
    /\ stack_resolve(game)
    /\ game.zones[STACK] = <<>>
    /\ StartsTurn(game.tm) => game.tm.turn_number < MaxTurn
    /\ \E r \in SbaResults :
          game' = End(advance(check_stack_resolve(LoopTop(game, r))))
    /\ pc' = pc
    /\ UNCHANGED <<stack_zone, ledger, registry>>

\* the fallback branch only prints its warning
ForceAssign_warns_only ==
    /\ pc = "loop" /\ ~win_loss(game)
    /\ get_current_player(game) = None
    /\ ~stack_resolve(game)
    /\ \E r \in SbaResults :
          game' = End(check_stack_resolve(LoopTop(game, r)))
    /\ pc' = pc
    /\ UNCHANGED <<stack_zone, ledger, registry>>

\* nobody has priority and check_stack_resolve() is false
ForceAssign ==
    /\ Running
    /\ get_current_player(game) = None
    /\ ~stack_resolve(game)
    /\ \E r \in SbaResults :
          game' = End(set_priority(check_stack_resolve(LoopTop(game, r)),
                                   Some(current_turn_player(game))))
    /\ pc' = pc
    /\ UNCHANGED <<stack_zone, ledger, registry>>

\* an effect makes a player lose life (ConcretePlayer.lose_life)
LoseLife ==
    /\ Running
    /\ \E p \in Range(game.players) :
          game' = lose_life(Begin(game, "lose_life"), p, 20)
    /\ pc' = pc
    /\ UNCHANGED <<stack_zone, ledger, registry>>

Next ==
    \/ StartGame
    \/ LoopEnd
    \/ ActPass
    \/ ActNone
    \/ ActPlayLand
    \/ ActPlayLandCommand
    \/ ActTapLand
    \/ ActCast
    \/ ResolveStack
    \/ AdvanceTurn
    \/ ForceAssign
    \/ LoseLife

Spec == Init /\ [][Next]_vars

(***************************************************************************)
(* The stack zone taken alone: any sequence of push, pop and peek calls.   *)
(* objs is the zone's list; pushed lists the ids in the order they were    *)
(* pushed, less those popped; op, ret, due and before are the last call,   *)
(* what it returned, what the order of the pushes makes it return and the  *)
(* list it found.                                                          *)
(***************************************************************************)
StackIds == 0..(MaxStackIds - 1)

StackInit ==
    /\ pc = "stack"
    /\ game = NewGame(<<0>>)
    /\ stack_zone = NewStackZone
    /\ ledger = NewLedger
    /\ registry = NewRegistry

\* the id that last-in-first-out order makes the next pop return
Due(pushed) == IF pushed = <<>> THEN None ELSE Some(pushed[Len(pushed)])

StackPush ==
    /\ \E obj_id \in StackIds :
          /\ ~Contains(stack_zone.objs, obj_id)
          /\ stack_zone' = [objs |-> Stack_push(stack_zone.objs, obj_id),
                            pushed |-> Append(stack_zone.pushed, obj_id),
                            op |-> "push", ret |-> None, due |-> None,
                            before |-> stack_zone.objs]
    /\ UNCHANGED <<game, pc, ledger, registry>>

StackPop ==
    /\ LET ret == Stack_pop_value(stack_zone.objs)
       IN  stack_zone' = [objs |-> Stack_pop(stack_zone.objs),
                          pushed |-> IF ret = None THEN stack_zone.pushed
                                     ELSE Zone_remove(stack_zone.pushed, ret[1]),
                          op |-> "pop", ret |-> ret, due |-> Due(stack_zone.pushed),
                          before |-> stack_zone.objs]
    /\ UNCHANGED <<game, pc, ledger, registry>>

StackPeek ==
    /\ stack_zone' = [objs |-> stack_zone.objs,
                      pushed |-> stack_zone.pushed,
                      op |-> "peek", ret |-> Stack_peek(stack_zone.objs),
                      due |-> Due(stack_zone.pushed),
                      before |-> stack_zone.objs]
    /\ UNCHANGED <<game, pc, ledger, registry>>

StackNext == StackPush \/ StackPop \/ StackPeek

StackSpec == StackInit /\ [][StackNext]_vars

(***************************************************************************)
(* The mana pool taken alone: any sequence of add, can_spend, spend and    *)
(* empty calls, and the return of what a spend took.  pool is self._pool   *)
(* after the last call; op, kind, amount, cost and ok are the call, its    *)
(* arguments and its answer; prior is self._pool as the call found it; op  *)
(* is "idle" between two calls.                                            *)
(***************************************************************************)
CostKeys == PoolKeys \cup {"generic"}

Total(d) == SumOver(d, DOMAIN d)

\* the cost_dict of a mana cost: the count of each key among at most MaxMana
\* mana symbols
CostOf(symbols) ==
    [k \in CostKeys |-> Cardinality({i \in DOMAIN symbols : symbols[i] = k})]

Costs == {CostOf(symbols) : symbols \in UNION {[1..n -> CostKeys] : n \in 0..MaxMana}}

NoCost == [k \in CostKeys |-> 0]

Call(pool, op, prior, kind, amount, cost, ok, again) ==
    [pool |-> pool, op |-> op, prior |-> prior, kind |-> kind, amount |-> amount,
     cost |-> cost, ok |-> ok, again |-> again]

LedgerInit ==
    /\ pc = "ledger"
    /\ game = NewGame(<<0>>)
    /\ stack_zone = NewStackZone
    /\ ledger = NewLedger
    /\ registry = NewRegistry

LedgerAdd ==
    /\ ledger.op = "idle"
    /\ \E kind \in ManaType, amount \in (-1)..MaxMana :
          /\ Total(ledger.pool) + Max(amount, 0) <= MaxMana
          /\ ledger' = Call(ManaPool_add(ledger.pool, kind, amount), "add",
                            ledger.pool, kind, amount, NoCost, TRUE, TRUE)
    /\ UNCHANGED <<game, pc, stack_zone, registry>>

\* can_spend(cost), and can_spend(cost) once more
LedgerCanSpend ==
    /\ ledger.op = "idle"
    /\ \E cost \in Costs :
          LET after == ManaPool_after_can_spend(ledger.pool, cost)
          IN  ledger' = Call(ManaPool_after_can_spend(after, cost), "can_spend",
                             ledger.pool, "", 0, cost,
                             ManaPool_can_spend(ledger.pool, cost),
                             ManaPool_can_spend(after, cost))
    /\ UNCHANGED <<game, pc, stack_zone, registry>>

LedgerSpend ==
    /\ ledger.op = "idle"
    /\ \E cost \in Costs :
          LET spent == ManaPool_spend(ledger.pool, cost)
          IN  ledger' = Call(spent[1], "spend", ledger.pool, "", 0, cost, spent[2], TRUE)
    /\ UNCHANGED <<game, pc, stack_zone, registry>>

\* add(kind, amounts[kind]) for each kind in turn
RECURSIVE AddAll(_, _, _)
AddAll(pool, amounts, i) ==
    IF i > Len(mana_types_for_generic) THEN pool
    ELSE AddAll(ManaPool_add(pool, mana_types_for_generic[i],
                             amounts[mana_types_for_generic[i]]),
                amounts, i + 1)

\* what the spend took of each kind is added again, right after the spend
LedgerGiveBack ==
    /\ ledger.op = "spend"
    /\ ledger.ok
    /\ ledger' = Call(AddAll(ledger.pool,
                             [k \in PoolKeys |-> ledger.prior[k] - ledger.pool[k]], 1),
                      "give_back", ledger.prior, "", 0, ledger.cost, TRUE, TRUE)
    /\ UNCHANGED <<game, pc, stack_zone, registry>>

LedgerEmpty ==
    /\ ledger.op = "idle"
    /\ ledger' = Call(ManaPool_empty(ledger.pool), "empty",
                      ledger.pool, "", 0, NoCost, TRUE, TRUE)
    /\ UNCHANGED <<game, pc, stack_zone, registry>>

\* the call returns and its caller goes on
LedgerReturn ==
    /\ ledger.op # "idle"
    /\ ledger' = [NewLedger EXCEPT !.pool = ledger.pool]
    /\ UNCHANGED <<game, pc, stack_zone, registry>>

LedgerNext ==
    \/ LedgerAdd
    \/ LedgerCanSpend
    \/ LedgerSpend
    \/ LedgerGiveBack
    \/ LedgerEmpty
    \/ LedgerReturn

LedgerSpec == LedgerInit /\ [][LedgerNext]_vars

(***************************************************************************)
(* The registry of a game and its two counters taken alone: ids and        *)
(* timestamps are generated and objects are built and registered under    *)
(* any id, in any order.  ids and timestamps are the values handed out so  *)
(* far, arg the object of the last register_object, before the registry    *)
(* and the counters at the start of the last call.                         *)
(***************************************************************************)
RegistryInit ==
    /\ pc = "registry"
    /\ game = NewGame(<<0>>)
    /\ stack_zone = NewStackZone
    /\ ledger = NewLedger
    /\ registry = NewRegistry

Called(r, op, ret, arg) ==
    [r EXCEPT !.op = op, !.ret = ret, !.arg = arg,
              !.before = [objects |-> registry.objects,
                          next_object_id |-> registry.next_object_id,
                          next_timestamp |-> registry.next_timestamp,
                          ids |-> registry.ids,
                          timestamps |-> registry.timestamps]]

RegistryGenerateId ==
    /\ pc = "registry"
    /\ registry.next_object_id < MaxObjects
    /\ registry' = [Called(generate_object_id(registry), "generate_object_id",
                           Some(new_object_id(registry)), None)
                       EXCEPT !.ids = @ \cup {new_object_id(registry)}]
    /\ UNCHANGED <<game, pc, stack_zone, ledger>>

RegistryGenerateTimestamp ==
    /\ pc = "registry"
    /\ registry.next_timestamp < MaxObjects
    /\ registry' = [Called(generate_timestamp(registry), "generate_timestamp",
                           Some(new_timestamp(registry)), None)
                       EXCEPT !.timestamps = @ \cup {new_timestamp(registry)}]
    /\ UNCHANGED <<game, pc, stack_zone, ledger>>

\* an object is built with any id below MaxObjects, which takes a timestamp,
\* and handed to register_object
RegistryRegister ==
    /\ pc = "registry"
    /\ registry.next_timestamp < MaxObjects
    /\ \E obj_id \in 0..(MaxObjects - 1), card_data \in {PlainsData, ForestData} :
          LET obj == ConcretePermanent(obj_id, card_data, 0, "unset",
                                       new_timestamp(registry))
              r1 == generate_timestamp(registry)
          IN  registry' = [Called([r1 EXCEPT !.objects = register_object(@, obj)],
                                  "register_object", None, Some(obj))
                              EXCEPT !.timestamps = @ \cup {new_timestamp(registry)}]
    /\ UNCHANGED <<game, pc, stack_zone, ledger>>

RegistryNext ==
    \/ RegistryGenerateId
    \/ RegistryGenerateTimestamp
    \/ RegistryRegister

RegistrySpec == RegistryInit /\ [][RegistryNext]_vars

(***************************************************************************)
(* The casting tests taken alone: from the fixture, the player with        *)
(* priority casts or passes and the stack resolves.                        *)
(***************************************************************************)
CastNext ==
    \/ ActCast
    \/ ActPass
    \/ ResolveStack

CastSpec == CastInit /\ [][CastNext]_vars

(***************************************************************************)
(* The game with decks of lands only, for as long as it goes on: nothing   *)
(* is cast, the stack stays empty and no life is lost.                     *)
(***************************************************************************)
LandNext ==
    \/ StartGame
    \/ ActPass
    \/ ActPlayLand
    \/ ActPlayLandCommand
    \/ ActTapLand
    \/ AdvanceTurn
    \/ ForceAssign

LandSpec == LandInit /\ [][LandNext]_vars

(***************************************************************************)
(* The priority manager of a game taken alone: set_priority for any player *)
(* or None, pass_priority by any player, holder or not, and                *)
(* check_stack_resolve, in any order.  game.asked is the player of the     *)
(* last pass_priority.                                                     *)
(***************************************************************************)
ArbiterInit ==
    /\ pc = "arbiter"
    /\ \E players \in PlayerLists \cup {<<1, 0>>} : game = NewGame(players)
    /\ stack_zone = NewStackZone
    /\ ledger = NewLedger
    /\ registry = NewRegistry

ArbiterSet ==
    /\ pc = "arbiter"
    /\ \E player \in {None} \cup {Some(p) : p \in Range(game.players)} :
          game' = set_priority(Begin(game, "set"), player)
    /\ UNCHANGED <<pc, stack_zone, ledger, registry>>

ArbiterPass ==
    /\ pc = "arbiter"
    /\ \E p \in Range(game.players) :
          game' = pass_priority([Begin(game, "pass") EXCEPT !.asked = Some(p)], p)
    /\ UNCHANGED <<pc, stack_zone, ledger, registry>>

ArbiterCheck ==
    /\ pc = "arbiter"
    /\ game' = check_stack_resolve(Begin(game, "check"))
    /\ UNCHANGED <<pc, stack_zone, ledger, registry>>

ArbiterNext ==
    \/ ArbiterSet
    \/ ArbiterPass
    \/ ArbiterCheck

ArbiterSpec == ArbiterInit /\ [][ArbiterNext]_vars

\* a hand with two spells: the casting fixture with Savannah Lions and white
\* mana, and a second card put in the hand; then casts, passes, resolutions
\* and the steps of the turn
SorceryInit ==
    /\ pc = "loop"
    /\ \E players \in PlayerLists :
       \E order \in [Range(players) -> Perms(1..DeckSize)] :
       \E second \in {SavannahLionsData, GrizzlyBearsData}, white \in 0..MaxMana :
          game = Begin(put_card_in_hand(
                           CastFixture(
                               start_game(shuffle(populate_libraries(NewGame(players), 1),
                                                  order)),
                               SavannahLionsData, ("WHITE" :> white) @@ ("GREEN" :> 0)),
                           players[1], second), "fixture")
    /\ stack_zone = NewStackZone
    /\ ledger = NewLedger
    /\ registry = NewRegistry

SorceryNext ==
    \/ ActCast
    \/ ActPass
    \/ ResolveStack
    \/ AdvanceTurn
    \/ ForceAssign

SorcerySpec == SorceryInit /\ [][SorceryNext]_vars

\* the main loop from the fixture of test_02 (Savannah Lions in hand, one
\* white mana in the pool).  The `while not self.game_over` loop goes on to
\* its next iteration, and in the branch taken when nobody holds priority it
\* waits for no input: that branch is taken whenever it stays possible.
FairInit ==
    /\ pc = "loop"
    /\ \E players \in PlayerLists :
       \E order \in [Range(players) -> Perms(1..DeckSize)] :
          game = Begin(CastFixture(
                           start_game(shuffle(populate_libraries(NewGame(players), 1),
                                              order)),
                           SavannahLionsData, ("WHITE" :> 1) @@ ("GREEN" :> 0)), "fixture")
    /\ stack_zone = NewStackZone
    /\ ledger = NewLedger
    /\ registry = NewRegistry

FairSpec ==
    FairInit /\ [][SorceryNext]_vars /\ WF_vars(ResolveStack \/ AdvanceTurn \/ ForceAssign)

(***************************************************************************)
(* The life totals and the win/loss check taken alone: while the game is   *)
(* not over, life is lost (lose_life, which checks at once) or changed     *)
(* without a check (gain_life, here with negative amounts), and the check  *)
(* is called as the main loop calls it.                                    *)
(***************************************************************************)
LifeAmounts == (20 - MaxOverkill)..(20 + MaxOverkill)

LossInit ==
    /\ pc = "loss"
    /\ \E players \in PlayerLists \cup {<<1, 0>>} : game = NewGame(players)
    /\ stack_zone = NewStackZone
    /\ ledger = NewLedger
    /\ registry = NewRegistry

LossLoseLife ==
    /\ pc = "loss"
    /\ ~game.game_over
    /\ \E p \in Range(game.players), amount \in LifeAmounts :
          /\ game.life[p] - amount >= 0 - MaxOverkill
          /\ game' = lose_life(Begin(game, "lose_life"), p, amount)
    /\ UNCHANGED <<pc, stack_zone, ledger, registry>>

LossGainLife ==
    /\ pc = "loss"
    /\ ~game.game_over
    /\ \E p \in Range(game.players), amount \in LifeAmounts :
          /\ game.life[p] - amount >= 0 - MaxOverkill
          /\ game' = gain_life(Begin(game, "gain_life"), p, 0 - amount)
    /\ UNCHANGED <<pc, stack_zone, ledger, registry>>

LossCheck ==
    /\ pc = "loss"
    /\ game' = check_win_loss_condition(Begin(game, "check"))
    /\ UNCHANGED <<pc, stack_zone, ledger, registry>>

LossNext ==
    \/ LossLoseLife
    \/ LossGainLife
    \/ LossCheck

LossSpec == LossInit /\ [][LossNext]_vars

(***************************************************************************)
(* Properties.                                                             *)
(***************************************************************************)
\* the last handler was an iteration of run_main_loop
InLoop == pc # "setup" /\ game.log # <<>> /\ game.log[1] = "loop"

Logged(e) == Contains(game.log, e)

AllPlayers == Range(game.players)

\* how often obj_id occurs in the membership lists of all zones
Occurrences(obj_id) ==
    SumOver([z \in DOMAIN game.zones |->
                Cardinality({i \in DOMAIN game.zones[z] : game.zones[z][i] = obj_id})],
            DOMAIN game.zones)

\* C1: every registered object id is in exactly one zone's membership list,
\* once (never in two lists, never in none).
C1_ZoneExclusivity == \A obj_id \in DOMAIN game.objects : Occurrences(obj_id) = 1

\* C2: the current_zone of every object whose id is in a zone's membership
\* list is that zone.
C2_DualBookkeeping ==
    \A z \in DOMAIN game.zones : \A i \in DOMAIN game.zones[z] :
        /\ game.zones[z][i] \in DOMAIN game.objects
        /\ game.objects[game.zones[z][i]].current_zone = z

\* C3: check_stack_resolve() would answer true if and only if every player
\* has passed priority since priority was last set, with no set in between.
C3_PriorityCycle == stack_resolve(game) <=> game.passes = AllPlayers

C3_Witness ==
    /\ Len(game.players) = 2
    /\ stack_resolve(game)
    /\ game.passes = {0, 1}

\* the player asked in the last iteration played a land, tapped a land for
\* mana or cast a spell
Acted == InLoop /\ game.asked # None /\ (Logged("play_land") \/ Logged("tap_land") \/ Logged("cast"))

CanonicalOrder ==
    <<<<"BEGINNING", "UNTAP">>, <<"BEGINNING", "UPKEEP">>, <<"BEGINNING", "DRAW">>,
      <<"PRECOMBAT_MAIN", "MAIN">>,
      <<"COMBAT", "BEGIN_COMBAT">>, <<"COMBAT", "DECLARE_ATTACKERS">>,
      <<"COMBAT", "DECLARE_BLOCKERS">>, <<"COMBAT", "COMBAT_DAMAGE">>,
      <<"COMBAT", "END_OF_COMBAT">>,
      <<"POSTCOMBAT_MAIN", "MAIN">>,
      <<"ENDING", "END">>, <<"ENDING", "CLEANUP">>>>

StepPos(tm) == IndexOf(CanonicalOrder, <<tm.current_phase, tm.current_step>>)

\* the step tm is in is the one that follows the step of tm0 in the canonical
\* order, the Untap step of the next turn following Cleanup
NextInOrder(tm0, tm) ==
    /\ StepPos(tm) = (StepPos(tm0) % Len(CanonicalOrder)) + 1
    /\ tm.turn_number = tm0.turn_number + (IF tm0.current_step = "CLEANUP" THEN 1 ELSE 0)

\* the last iteration of the main loop called turn_manager.advance()
Advanced == InLoop /\ Logged("advance")

\* C5: every advance() enters the step that follows in the canonical order
\* Untap, Upkeep, Draw, Main, BeginCombat, DeclareAttackers, DeclareBlockers,
\* CombatDamage, EndOfCombat, Main, End, Cleanup; from Cleanup it enters the
\* Untap step of the next turn.
C5_TurnOrder == Advanced => NextInOrder(game.before.tm, game.tm)

\* the last iteration called advance() in the Cleanup step
Wrapped == Advanced /\ game.before.tm.current_step = "CLEANUP"

\* C6: the turn counter goes up, by one, only in the advance() that leaves
\* Cleanup, which makes the next player in player order the active player;
\* nothing else changes the counter or the active player; at turn t >= 1 the
\* active player is players[(start + t - 1) mod N], start being 0.
C6_TurnWrap ==
    LET tm0 == game.before.tm
        tm == game.tm
        N == Len(game.players)
    IN  /\ Wrapped =>
              /\ tm.turn_number = tm0.turn_number + 1
              /\ tm.active_player_index = (tm0.active_player_index + 1) % N
        /\ (InLoop /\ ~Wrapped) =>
              /\ tm.turn_number = tm0.turn_number
              /\ tm.active_player_index = tm0.active_player_index
              /\ tm.active_player = tm0.active_player
        /\ tm.turn_number >= 1 =>
              /\ tm.active_player_index = (tm.turn_number - 1) % N
              /\ tm.active_player = game.players[((tm.turn_number - 1) % N) + 1]

C6_Witness ==
    /\ Wrapped
    /\ Len(game.players) = 2
    /\ game.tm.turn_number = 2
    /\ game.tm.active_player = 1

SbaEvents == {"sba_true", "sba_false"}

\* the call of check_state_based_actions() that came last before event j of
\* the log reported that no action was taken
SbaSettledBefore(first, j) ==
    \E k \in first..(j - 1) :
        /\ game.log[k] = "sba_false"
        /\ \A m \in (k + 1)..(j - 1) : game.log[m] \notin SbaEvents

AllPassed == InLoop /\ Logged("check_stack_resolve") /\ game.before.passes = AllPlayers

\* C9: when nobody holds priority and all players have passed in succession,
\* a stack that is not empty loses exactly its top entry, the step stays and
\* the active player gets priority; with an empty stack the turn manager
\* advances by exactly one step and the stack stays empty.
C9_ResolveOrAdvance ==
    AllPassed =>
        IF game.before.stack # <<>>
        THEN /\ game.zones[STACK] = SubSeq(game.before.stack, 1, Len(game.before.stack) - 1)
             /\ game.tm = game.before.tm
             /\ get_current_player(game) = Some(game.tm.active_player)
        ELSE /\ NextInOrder(game.before.tm, game.tm)
             /\ game.zones[STACK] = <<>>

\* C10: nobody holds priority while the step is Untap or Cleanup, and nobody
\* is asked for an action in these steps.
C10_NoPrioritySteps ==
    /\ game.tm.current_step \in {"UNTAP", "CLEANUP"} => get_current_player(game) = None
    /\ (InLoop /\ game.asked # None) => game.before.tm.current_step \notin {"UNTAP", "CLEANUP"}

(***************************************************************************)
(* C11.  The stack is last-in-first-out: a pop returns the id pushed last  *)
(* among those still on the stack, so that successive pops return the ids  *)
(* in the reverse order of the pushes; a peek returns the id the next pop  *)
(* would return and leaves the stack as it was; on the empty stack both    *)
(* return None.                                                            *)
(***************************************************************************)
C11_StackLifo ==
    /\ stack_zone.op \in {"pop", "peek"} =>
          /\ stack_zone.ret = stack_zone.due
          /\ stack_zone.before = <<>> => stack_zone.ret = None
    /\ stack_zone.op = "pop" /\ stack_zone.before # <<>> =>
          Len(stack_zone.objs) = Len(stack_zone.before) - 1
    /\ stack_zone.op = "peek" =>
          /\ stack_zone.objs = stack_zone.before
          /\ stack_zone.ret = Stack_pop_value(stack_zone.objs)

\* a pop found two ids on the stack and returned the one pushed last
C11_Witness ==
    /\ stack_zone.op = "pop"
    /\ Len(stack_zone.before) = 2
    /\ stack_zone.ret = Some(stack_zone.before[2])
    /\ stack_zone.objs = <<stack_zone.before[1]>>

(***************************************************************************)
(* C12.  Colored requirements are paid only with their own kind: if a      *)
(* requirement of one of the six kinds exceeds the pool's balance of that  *)
(* kind, or if the pool's total less all those requirements is below the   *)
(* generic requirement, can_spend is false, whatever the pool's total.     *)
(* The generic requirement is under the key "generic", which can_spend     *)
(* reads, or under ManaType.GENERIC, which SimpleManaCost writes.          *)
(***************************************************************************)
GenericOf(cost) == cost["generic"] + cost["GENERIC"]

C12_ColoredExact ==
    ledger.op = "can_spend" =>
        LET p == ledger.prior
            c == ledger.cost
        IN  (\/ \E k \in ManaType : c[k] > p[k]
             \/ SumOver(p, ManaType) - SumOver(c, ManaType) < GenericOf(c))
            => ~ledger.ok

\* the pool held one Green, the cost was one generic and one Green
C12_Witness ==
    /\ ledger.op = "can_spend"
    /\ ledger.prior = [EmptyPool EXCEPT !["GREEN"] = 1]
    /\ ledger.cost = [NoCost EXCEPT !["generic"] = 1, !["GREEN"] = 1]
    /\ ~ledger.ok

(***************************************************************************)
(* C13.  spend decides as can_spend does and commits: it succeeds exactly  *)
(* when can_spend is true of the pool it finds, and a spend that fails     *)
(* leaves every balance as it was.                                         *)
(***************************************************************************)
C13_SpendAsCanSpend ==
    ledger.op = "spend" =>
        /\ ledger.ok <=> ManaPool_can_spend(ledger.prior, ledger.cost)
        /\ ~ledger.ok => ledger.pool = ledger.prior

\* a spend of a cost with a generic part succeeded on a pool that held Green only
C13_Witness ==
    /\ ledger.op = "spend"
    /\ ledger.ok
    /\ ledger.cost["generic"] > 0
    /\ ledger.prior["GREEN"] = Total(ledger.prior)

C15_RoundTrip ==
    ledger.op = "give_back" => ledger.pool = ledger.prior

\* the spend took a colored and a generic part, and both were added again
C15_Witness ==
    /\ ledger.op = "give_back"
    /\ ledger.cost["generic"] = 1
    /\ ledger.cost["GREEN"] = 1
    /\ ledger.pool["GREEN"] = 1
    /\ ledger.pool["WHITE"] = 1

(***************************************************************************)
(* C16.  Every balance is at least 0 after any sequence of calls; add      *)
(* lowers no balance; add of an amount of 0 or less changes nothing.       *)
(***************************************************************************)
C16_LedgerNonNegative ==
    /\ \A k \in PoolKeys : ledger.pool[k] >= 0
    /\ ledger.op = "add" =>
          /\ \A k \in PoolKeys : ledger.pool[k] >= ledger.prior[k]
          /\ ledger.amount <= 0 => ledger.pool = ledger.prior

\* add was called with a negative amount on a pool that held mana
C16_Witness ==
    /\ ledger.op = "add"
    /\ ledger.amount < 0
    /\ ledger.prior[ledger.kind] > 0
    /\ ledger.pool = ledger.prior

(***************************************************************************)
(* C17.  Mana does not persist across turns: whenever a handler has        *)
(* raised the turn counter, the mana pool of every player holds 0 of       *)
(* every kind.                                                             *)
(***************************************************************************)
TurnStarted == pc # "setup" /\ game.tm.turn_number # game.before.tm.turn_number

C17_ManaNotPersisting ==
    TurnStarted => \A p \in AllPlayers : game.mana_pool[p] = EmptyPool

(***************************************************************************)
(* C18.  Loss at zero life: the handler that brings a player's life total  *)
(* to 0 or less runs the win/loss check, after which the game is over and  *)
(* that player is the loser (with two players the other one is the         *)
(* winner, with one the result is a loss); the main loop, which finds the  *)
(* game over, asks no player for an action.                                *)
(***************************************************************************)
RecordedLoser(p) ==
    /\ game.game_over
    /\ game.game_result # None
    /\ game.game_result[1].winner # Some(p)
    /\ IF Len(game.players) = 2
       THEN /\ game.game_result[1].result = "WIN"
            /\ game.game_result[1].winner # None
            /\ game.game_result[1].winner[1] \in AllPlayers \ {p}
       ELSE /\ game.game_result[1].result = "LOSS"
            /\ game.game_result[1].winner = None

C18_LossAtZeroLife ==
    pc # "setup" =>
        /\ \A p \in AllPlayers :
              game.life[p] <= 0 => RecordedLoser(p)
        /\ game.game_over => (game.asked = None /\ ~Logged("choose_action"))
        /\ (\E p \in AllPlayers : game.life[p] <= 0) => ~Running

\* the second of two players lost all life and the main loop has ended
C18_Witness ==
    /\ pc = "done"
    /\ Len(game.players) = 2
    /\ game.life[1] <= 0
    /\ RecordedLoser(1)

(***************************************************************************)
(* C19.  A draw from an empty library makes its player lose: when a        *)
(* player has tried to draw from an empty library, the game is over with   *)
(* that player as the loser once the next iteration of the main loop has   *)
(* run its checks.                                                         *)
(***************************************************************************)
C19_EmptyLibraryLoss ==
    InLoop => \A p \in game.before.empty_draw : RecordedLoser(p)

(***************************************************************************)
(* C20.  A draw of n cards from a library of at least n ids takes the n    *)
(* ids on top (positions 0..n-1), appends them to the hand in library      *)
(* order, leaves the rest of the library in its order and makes the hand   *)
(* the current zone of each drawn object.  start_game draws                *)
(* StartingHandSize cards for every player, and advance() into the Draw    *)
(* step one card for the active player.                                    *)
(***************************************************************************)
DrawnRight(p, n) ==
    LET library == game.before.zones[LibraryId(p)]
        hand == game.before.zones[HandId(p)]
    IN  Len(library) >= n =>
            /\ game.zones[LibraryId(p)] = SubSeq(library, n + 1, Len(library))
            /\ game.zones[HandId(p)] = hand \o SubSeq(library, 1, n)
            /\ \A i \in 1..n : game.objects[library[i]].current_zone = HandId(p)

DrawStep == Advanced /\ game.tm.current_step = "DRAW"

C20_DrawCards ==
    /\ (pc # "setup" /\ Logged("start_game")) =>
          \A p \in AllPlayers : DrawnRight(p, StartingHandSize)
    /\ DrawStep => DrawnRight(game.tm.active_player, 1)

\* the cast handed in during this iteration was turned down by a pre-check
CastRefused == InLoop /\ (Logged("cast_illegal") \/ Logged("cast_unpayable"))

\* everything the claim lists is as it was when the iteration began
AsBefore ==
    /\ game.zones = game.before.zones
    /\ game.objects = game.before.objects
    /\ game.mana_pool = game.before.mana_pool
    /\ game.pm = game.before.pm
    /\ game.passes = game.before.passes

\* C21: a cast turned down by a legality pre-check (timing, card not in hand,
\* mana not payable) changes nothing: the hand, the stack, every zone, the
\* spell's recorded zone, the mana pools and the priority state are what they
\* were before the attempt.
C21_FailedCastRolledBack == CastRefused => AsBefore

\* a cast of a card in the caster's hand was turned down for its cost
C21_Witness ==
    /\ InLoop /\ Logged("cast_unpayable")
    /\ game.spell # None /\ game.asked # None
    /\ Contains(game.zones[HandId(game.asked[1])], game.spell[1])

\* the action handed in during this iteration was not a legal one
IllegalAttempt == InLoop /\ (Logged("unknown_action") \/ Logged("play_land_illegal"))

\* C22: an illegal attempt (a land play that is not legal, an unknown action)
\* is rejected without effect and is not a pass: zones, land counters and
\* mana pools are unchanged, the player who made it still holds priority and
\* is not recorded as having passed.
C22_IllegalAttemptRejected ==
    IllegalAttempt =>
        /\ game.zones = game.before.zones
        /\ game.lands_played_this_turn = game.before.lands_played_this_turn
        /\ game.mana_pool = game.before.mana_pool
        /\ get_current_player(game) = game.asked
        /\ game.asked[1] \notin game.passes

\* a cast was handed in during this iteration
CastAttempt == InLoop /\ game.spell # None /\ game.asked # None

Caster == game.asked[1]
SpellCost == game.objects[game.spell[1]].card_data.mana_cost[1]

\* the cost as the rules read it: colored components and a generic one
Colored(cost) == {k \in DOMAIN cost : k \in ManaType}
Generic(cost) == DictGet(cost, "GENERIC", 0) + DictGet(cost, "generic", 0)

\* payable: each colored component from mana of its color, the generic one
\* from any mana that remains
Payable(pool, cost) ==
    /\ \A k \in Colored(cost) : pool[k] >= cost[k]
    /\ Total(pool) >= SumOver(cost, Colored(cost)) + Generic(cost)

\* the cast of this iteration was one the claim is about
CastInOrder ==
    /\ CastAttempt
    /\ Caster = game.before.tm.active_player
    /\ game.before.pm.player_with_priority = Some(Caster)
    /\ game.before.tm.current_phase \in {"PRECOMBAT_MAIN", "POSTCOMBAT_MAIN"}
    /\ game.before.stack = <<>>
    /\ Contains(game.before.zones[HandId(Caster)], game.spell[1])
    /\ Payable(game.before.mana_pool[Caster], SpellCost)

\* C23: a cast by the active player in a main phase, with an empty stack and
\* a payable cost, succeeds: the hand loses the card, the stack gains it as
\* its top, its recorded zone is the stack, the pool is reduced by exactly
\* the cost (colored components from their color, the generic one from what
\* remains) and the caster holds priority.
C23_CastSucceeds ==
    CastInOrder =>
        /\ Logged("cast")
        /\ game.zones[HandId(Caster)] =
               ListRemove(game.before.zones[HandId(Caster)], game.spell[1])
        /\ game.zones[STACK] = <<game.spell[1]>>
        /\ game.objects[game.spell[1]].zone = STACK
        /\ \A k \in Colored(SpellCost) :
               game.mana_pool[Caster][k] <= game.before.mana_pool[Caster][k] - SpellCost[k]
        /\ Total(game.mana_pool[Caster]) =
               Total(game.before.mana_pool[Caster])
                   - SumOver(SpellCost, Colored(SpellCost)) - Generic(SpellCost)
        /\ \A k \in PoolKeys : game.mana_pool[Caster][k] >= 0
        /\ get_current_player(game) = Some(Caster)

\* the top of the stack was resolved during this iteration
Resolved == InLoop /\ Logged("pop")

ResolvedSpell == game.before.stack[Len(game.before.stack)]

\* C24: resolving a permanent spell moves it from the stack to the
\* battlefield: the stack loses it, the battlefield gains it, its recorded
\* zone is the battlefield and the active player holds priority.
C24_ResolveToBattlefield ==
    Resolved =>
        /\ game.zones[STACK] = SubSeq(game.before.stack, 1, Len(game.before.stack) - 1)
        /\ game.zones[BATTLEFIELD] =
               Append(game.before.zones[BATTLEFIELD], ResolvedSpell)
        /\ game.objects[ResolvedSpell].zone = BATTLEFIELD
        /\ get_current_player(game) = Some(game.tm.active_player)

\* a land was played during this iteration
LandPlayed == InLoop /\ Logged("play_land") /\ game.asked # None

\* the land moved from the hand of the player asked to the battlefield, and
\* nothing else moved
MovedLand(land) ==
    /\ IsLand(game.objects[land])
    /\ Contains(game.before.zones[HandId(game.asked[1])], land)
    /\ game.zones =
          [game.before.zones EXCEPT ![HandId(game.asked[1])] = ListRemove(@, land),
                                    ![BATTLEFIELD] = Append(@, land)]

\* C25: a legal land play moves exactly one land from the player's hand to
\* the battlefield, untapped and under that player's control, makes the
\* player's lands-played counter 1 and leaves the player with priority and
\* nobody recorded as having passed.
C25_PlayLand ==
    LandPlayed =>
        /\ \E land \in DOMAIN game.objects :
              /\ MovedLand(land)
              /\ ~game.objects[land].tapped
              /\ game.objects[land].controller = game.asked[1]
        /\ game.lands_played_this_turn[game.asked[1]] = 1
        /\ get_current_player(game) = game.asked
        /\ game.passes = {}
        /\ stack_resolve(game) = FALSE

\* a land was played by a player who had a second card in hand
C25_Witness ==
    /\ LandPlayed
    /\ game.zones[HandId(game.asked[1])] # <<>>
    /\ game.zones[BATTLEFIELD] # <<>>

\* the turns of the game so far in which p was the active player
TurnsOf(p) ==
    Cardinality({t \in 1..game.tm.turn_number :
                    game.players[((t - 1) % Len(game.players)) + 1] = p})

LandsOf(p) ==
    {oid \in Range(game.zones[BATTLEFIELD]) :
        IsLand(game.objects[oid]) /\ game.objects[oid].controller = p}

\* C26: playing a land is offered only to the active player, in a main
\* phase, with an empty stack, a land in hand and no land played this turn;
\* the lands-played counter is 0 or 1, a land is played only from a counter
\* of 0, and a player has at most one land on the battlefield for each of
\* that player's turns.
C26_OneLandPerTurn ==
    pc = "loop" =>
        \A p \in Range(game.players) :
            /\ "play_land" \in get_legal_actions(game, p) =>
                   /\ p = game.tm.active_player
                   /\ game.tm.current_phase \in {"PRECOMBAT_MAIN", "POSTCOMBAT_MAIN"}
                   /\ game.zones[STACK] = <<>>
                   /\ \E oid \in Range(game.zones[HandId(p)]) : IsLand(game.objects[oid])
                   /\ game.lands_played_this_turn[p] = 0
            /\ game.lands_played_this_turn[p] \in {0, 1}
            /\ (LandPlayed /\ game.asked = Some(p)) =>
                   game.before.lands_played_this_turn[p] = 0
            /\ Cardinality(LandsOf(p)) <= TurnsOf(p)

\* a player who played a land this turn holds priority in a main phase with
\* another land in hand, and is not offered to play it
C26_Witness ==
    /\ pc = "loop"
    /\ \E p \in Range(game.players) :
          /\ game.lands_played_this_turn[p] = 1
          /\ LandsInHand(game, p) # <<>>
          /\ get_current_player(game) = Some(p)
          /\ p = game.tm.active_player
          /\ IsMainPhase(game)
          /\ "play_land" \notin get_legal_actions(game, p)

\* a land was tapped for mana during this iteration
LandTapped == InLoop /\ Logged("tap_land") /\ game.asked # None

\* the mana the rules give for a basic land
ManaOf(land) == IF game.objects[land].card_data.name = "Plains" THEN "WHITE" ELSE "GREEN"

\* land was untapped on the battlefield under the player's control; now it
\* is tapped, nothing else about any object changed, and the player's pool
\* has one more mana of the land's type
TappedForMana(p, land) ==
    /\ Contains(game.before.zones[BATTLEFIELD], land)
    /\ IsLand(game.before.objects[land])
    /\ game.before.objects[land].controller = p
    /\ ~game.before.objects[land].tapped
    /\ game.objects = [game.before.objects EXCEPT ![land].tapped = TRUE]
    /\ game.mana_pool =
          [game.before.mana_pool EXCEPT ![p][ManaOf(land)] = @ + 1]
    /\ game.zones = game.before.zones

\* C27: tapping a land is offered to a player exactly when the player
\* controls an untapped land on the battlefield; doing it taps exactly one
\* such land, adds exactly one mana of its type (white for a Plains, green
\* for a Forest) to the player's pool and leaves the player with priority;
\* the land tapped was untapped before, so a tapped land is not tapped again.
C27_TapLand ==
    /\ pc = "loop" =>
          \A p \in Range(game.players) :
              "tap_land" \in get_legal_actions(game, p) <=>
                  \E oid \in Range(game.zones[BATTLEFIELD]) :
                      /\ IsLand(game.objects[oid])
                      /\ game.objects[oid].controller = p
                      /\ ~game.objects[oid].tapped
    /\ LandTapped =>
          /\ \E land \in DOMAIN game.objects : TappedForMana(game.asked[1], land)
          /\ get_current_player(game) = game.asked

\* a Forest was tapped for green mana while the other land on the
\* battlefield stayed as it was
C27_Witness ==
    /\ LandTapped
    /\ Len(game.zones[BATTLEFIELD]) = 2
    /\ \E land \in DOMAIN game.objects :
          /\ TappedForMana(game.asked[1], land)
          /\ game.objects[land].card_data.name = "Forest"
          /\ game.mana_pool[game.asked[1]]["GREEN"] = 1
    /\ "tap_land" \notin get_legal_actions(game, game.asked[1])

\* the step that advance() left was the last of its phase
LastOfPhase(tm) ==
    tm.current_step = STEP_ORDER[tm.current_phase][Len(STEP_ORDER[tm.current_phase])]

\* C28: within a turn, advance() from a step other than Cleanup enters the
\* next step of the canonical table, changes the phase exactly when the step
\* it leaves is the last of its phase, and changes neither the turn counter
\* nor the active player.
C28_AdvanceWithinTurn ==
    (Advanced /\ game.before.tm.current_step # "CLEANUP") =>
        /\ NextInOrder(game.before.tm, game.tm)
        /\ (game.tm.current_phase # game.before.tm.current_phase)
               <=> LastOfPhase(game.before.tm)
        /\ game.tm.turn_number = game.before.tm.turn_number
        /\ game.tm.active_player = game.before.tm.active_player

\* the last call registered an object whose id was in the registry
DuplicateRegistered ==
    /\ pc = "registry"
    /\ registry.op = "register_object"
    /\ registry.arg[1].id \in DOMAIN registry.before.objects

\* C29: registering an object whose id is already in the registry fails and
\* leaves the registry as it was.
C29_DuplicateRejected == DuplicateRegistered => registry.objects = registry.before.objects

\* C30: the id counter and the timestamp counter only grow: each call hands
\* out the counter's value, which is above every value handed out before,
\* and moves that counter up, while the other counter stays where it is.
C30_CountersIncrease ==
    pc = "registry" =>
        /\ registry.op = "generate_object_id" =>
              /\ registry.ret = Some(registry.before.next_object_id)
              /\ \A i \in registry.before.ids : i < registry.ret[1]
              /\ registry.next_object_id > registry.before.next_object_id
              /\ registry.next_timestamp = registry.before.next_timestamp
        /\ registry.op = "generate_timestamp" =>
              /\ registry.ret = Some(registry.before.next_timestamp)
              /\ \A t \in registry.before.timestamps : t < registry.ret[1]
              /\ registry.next_timestamp > registry.before.next_timestamp
              /\ registry.next_object_id = registry.before.next_object_id
        /\ Cardinality(registry.ids) = registry.next_object_id
        /\ Cardinality(registry.timestamps) = registry.next_timestamp

\* the third id is handed out after a single timestamp
C30_Witness ==
    /\ pc = "registry"
    /\ registry.op = "generate_object_id"
    /\ registry.ret = Some(2)
    /\ registry.before.ids = {0, 1}
    /\ registry.next_timestamp = 1

\* the last call on the manager of a two-player game was pass_priority(p)
PassCalled(p) ==
    /\ pc = "arbiter" /\ game.log # <<>> /\ game.log[1] = "pass"
    /\ Len(game.players) = 2
    /\ game.asked = Some(p)

OtherPlayer(p) == IF p = game.players[1] THEN game.players[2] ELSE game.players[1]

\* C31: in the two-player manager a pass by the holder, when the other
\* player has not passed since priority was last set, makes the other player
\* the holder and records the passer; when the other player has passed, it
\* leaves nobody holding priority; a pass by a player who does not hold
\* priority changes neither the holder nor the record of passes.
C31_PassTransitions ==
    \A p \in Range(game.players) :
        PassCalled(p) =>
            IF game.before.pm.player_with_priority = Some(p)
            THEN /\ p \in game.passes
                 /\ Contains(game.pm.passed_priority_in_succession, p)
                 /\ IF OtherPlayer(p) \in game.before.passes
                    THEN get_current_player(game) = None
                    ELSE get_current_player(game) = Some(OtherPlayer(p))
            ELSE /\ game.pm = game.before.pm
                 /\ game.passes = game.before.passes

\* the second of two passes in a row left nobody holding priority
C31_Witness ==
    \E p \in Range(game.players) :
        /\ PassCalled(p)
        /\ game.before.pm.player_with_priority = Some(p)
        /\ game.before.passes = {OtherPlayer(p)}
        /\ get_current_player(game) = None
        /\ game.passes = Range(game.players)

\* the last handler (start_game or an iteration of the main loop) ended
\* with a call of advance()
AfterAdvance == pc = "loop" /\ Logged("advance")

NoPassTracking ==
    /\ game.passes = {}
    /\ game.pm.passed_priority_in_succession = <<>>
    /\ ~game.pm.passed

\* C32: right after advance() enters a step other than Untap and Cleanup
\* the active player holds priority and no pass is on record; right after
\* it enters Untap or Cleanup nobody holds priority.
C32_PriorityAfterAdvance ==
    AfterAdvance =>
        IF game.tm.current_step \in {"UNTAP", "CLEANUP"}
        THEN get_current_player(game) = None
        ELSE get_current_player(game) = Some(game.tm.active_player) /\ NoPassTracking

\* the second player of a two-player game is given priority in the Upkeep
\* step of turn 2
C32_Witness ==
    /\ AfterAdvance /\ InLoop
    /\ game.tm.current_step = "UPKEEP"
    /\ game.tm.turn_number = 2
    /\ game.tm.active_player = 1
    /\ get_current_player(game) = Some(1)
    /\ game.before.passes = {0, 1}

\* the zones after the active player drew the top card of the library
ZonesAfterDraw(p) ==
    [game.before.zones EXCEPT ![LibraryId(p)] = Tail(@),
                              ![HandId(p)] = Append(@, game.before.zones[LibraryId(p)][1])]

\* C33: the turn-based action of a step is done once on each entry into the
\* step: an entry into Draw moves exactly one card, the top one, from the
\* active player's library (when it is not empty) to that player's hand and
\* changes no other zone; an entry into Cleanup leaves every mana pool empty.
C33_TurnBasedActions ==
    /\ (DrawStep /\ game.before.zones[LibraryId(game.tm.active_player)] # <<>>) =>
           game.zones = ZonesAfterDraw(game.tm.active_player)
    /\ (Advanced /\ game.tm.current_step = "CLEANUP") =>
           \A p \in Range(game.players) : game.mana_pool[p] = EmptyPool

\* the last iteration of the main loop entered the Untap step
UntapEntered == Advanced /\ game.tm.current_step = "UNTAP"

OnBattlefield(oid) == Contains(game.zones[BATTLEFIELD], oid)

Preference == <<"COLORLESS", "WHITE", "BLUE", "BLACK", "RED", "GREEN">>

\* what is left of kind Preference[i] once the requirements specific to a
\* kind are paid, and what the kinds before it have left together
LeftOf(i) == ledger.prior[Preference[i]] - ledger.cost[Preference[i]]
LeftBefore(i) == SumOver([j \in 1..Len(Preference) |-> LeftOf(j)], 1..(i - 1))

BothLost ==
    /\ pc = "loss"
    /\ Len(game.players) = 2
    /\ game.game_over
    /\ \A p \in Range(game.players) : game.life[p] <= 0

\* C36: when both players of a two-player game have life <= 0 at the same
\* check, neither is declared the winner, whatever the order of the players
\* list.
C36_SimultaneousLoss == BothLost => game.game_result[1].winner = None

\* the game is going on and nobody holds priority
NoHolder == Running /\ get_current_player(game) = None

\* the iteration just made began with nobody holding priority
BeganWithoutHolder ==
    pc = "loop" /\ InLoop /\ game.before.pm.player_with_priority = None

\* what check_stack_resolve() answered in the iteration just made
WasReady == stack_resolve([game EXCEPT !.pm = game.before.pm])

\* the next advance() would start a turn beyond the last turn explored
TurnCap == StartsTurn(game.tm) /\ game.tm.turn_number >= MaxTurn

IterationWithoutHolder ==
    BeganWithoutHolder =>
        \/ WasReady /\ game.before.stack # <<>> /\ Logged("pop") /\ ~Logged("advance")
        \/ WasReady /\ game.before.stack = <<>> /\ Logged("advance") /\ ~Logged("pop")
        \/ /\ ~WasReady
           /\ ~Logged("pop") /\ ~Logged("advance")
           /\ game.tm = game.before.tm
           /\ get_current_player(game) = Some(game.tm.active_player)

\* C37: an iteration of the main loop that finds the game going on and nobody
\* holding priority resolves the top stack entry, or advances the turn, or
\* (the arbiter not being ready) hands priority to the active player; and
\* the loop does not stay for ever in a state where nobody holds priority.
C37_NoDeadlock ==
    /\ []IterationWithoutHolder
    /\ NoHolder ~> (get_current_player(game) # None \/ ~Running \/ TurnCap)

C37_Witness ==
    /\ BeganWithoutHolder
    /\ ~WasReady
    /\ game.tm.current_step = "CLEANUP"
    /\ get_current_player(game) = Some(game.tm.active_player)

PassList == game.pm.passed_priority_in_succession

\* C38: in the two-player manager, after any sequence of set_priority,
\* pass_priority and check_stack_resolve calls, the list of passes holds no
\* player twice and never holds the priority holder, and when nobody holds
\* priority it is empty or holds both players.
C38_PassSet ==
    (pc = "arbiter" /\ Len(game.players) = 2) =>
        /\ \A i, j \in 1..Len(PassList) : PassList[i] = PassList[j] => i = j
        /\ \A p \in Range(game.players) :
              get_current_player(game) = Some(p) => ~Contains(PassList, p)
        /\ get_current_player(game) = None =>
              (PassList = <<>> \/ Range(PassList) = Range(game.players))

\* a pass by the holder after the other player's pass: nobody holds
\* priority and both players are in the list
C38_Witness ==
    /\ pc = "arbiter" /\ Len(game.players) = 2
    /\ game.log # <<>> /\ game.log[1] = "pass"
    /\ game.before.pm.player_with_priority # None
    /\ Len(game.before.pm.passed_priority_in_succession) = 1
    /\ get_current_player(game) = None
    /\ Len(PassList) = 2

\* the last call on the manager was check_stack_resolve
CheckCalled == pc = "arbiter" /\ game.log # <<>> /\ game.log[1] = "check"

\* what that call returned
CheckReturned == stack_resolve([game EXCEPT !.pm = game.before.pm])

\* C39: a check_stack_resolve that returns true consumes the record of
\* passes: a call made right after it returns false although still nobody
\* holds priority; the check can return true only when the call before it
\* was a pass.
C39_ReadyConsumed ==
    /\ (CheckCalled /\ CheckReturned) =>
          /\ ~stack_resolve(game)
          /\ get_current_player(game) = None
    /\ (pc = "arbiter" /\ stack_resolve(game)) =>
          (game.log # <<>> /\ game.log[1] = "pass")

\* the second check in a row of a two-player game, the first of which
\* followed the players' passes
C39_Witness ==
    /\ CheckCalled
    /\ Len(game.players) = 2
    /\ ~CheckReturned
    /\ game.passes = Range(game.players)
    /\ get_current_player(game) = None

\* the last iteration of the main loop put a spell on the stack
SpellCast == pc = "loop" /\ InLoop /\ Logged("cast")

NonInstant(oid) == "INSTANT" \notin game.objects[oid].card_data.card_types

\* C40: a spell that is no instant is cast only by the active player, in a
\* main phase, while the stack is empty; and while only such spells are
\* cast the stack never holds more than one entry.
C40_SorcerySpeed ==
    /\ (SpellCast /\ NonInstant(game.spell[1])) =>
          /\ game.asked = Some(game.before.tm.active_player)
          /\ game.before.tm.current_phase \in {"PRECOMBAT_MAIN", "POSTCOMBAT_MAIN"}
          /\ game.before.stack = <<>>
          /\ game.zones[STACK] = <<game.spell[1]>>
    /\ (\A oid \in DOMAIN game.objects : NonInstant(oid)) => Len(game.zones[STACK]) <= 1

\* with a spell on the stack the active player, in the main phase, tried to
\* cast a card of the hand that the pool could pay for, and was refused
C40_Witness ==
    /\ pc = "loop" /\ InLoop /\ Logged("cast_illegal")
    /\ Contains(game.zones[HandId(game.asked[1])], game.spell[1])
    /\ can_cast_specific_spell_any_time(game, game.asked[1], game.spell[1], TRUE)
    /\ game.asked = Some(game.before.tm.active_player)
    /\ game.before.tm.current_phase \in {"PRECOMBAT_MAIN", "POSTCOMBAT_MAIN"}
    /\ Len(game.before.stack) = 1
    /\ game.zones[STACK] = game.before.stack

====
